---- MODULE Spec2Model ----
(***************************************************************************)
(* IADS network of game/theater/iadsnetwork/iadsnetwork.py: the node list, *)
(* the registry, the config adjacency, initialize_network, update_tgo and  *)
(* skynet_nodes, over a small theater of three ground objects.             *)
(***************************************************************************)
EXTENDS Integers, Sequences, FiniteSets, TLC

\* Bounds of the exploration.
MaxUpdates == 1
MaxChanges == 2
MaxPos == 3

VARIABLES
    advanced_iads,   \* IadsNetwork.advanced_iads
    iads_config,     \* IadsNetwork.iads_config: ordered <<[key, conns]>>
    ground_objects,  \* IadsNetwork.ground_objects: registered names, in order
    nodes,           \* IadsNetwork.nodes: <<[oid, group, connections]>>
    events,          \* calls made on the GameUpdateEvents of the last update_tgo
    fresh,           \* next unused object identity / uuid4 value
    side,            \* tgo -> is_friendly(True) of its control point
    alive,           \* unit -> alive flag
    layout,          \* roles of the two groups of T1
    kind3,           \* what kind of ground object T3 is
    pos1,            \* position of T1 on the line
    pc,              \* "constructed" before initialize_network, then "ready"
    last,            \* the last call made on the network
    pre_nodes,       \* IadsNetwork.nodes when the last call started
    snapshot,        \* result of the last skynet_nodes call
    n_updates,       \* update_tgo calls made so far
    n_changes,       \* changes of the theater made so far
    loaded_config    \* IadsNetwork.iads_config as __init__ loaded it

vars == <<advanced_iads, iads_config, ground_objects, nodes, events, fresh,
          side, alive, layout, kind3, pos1, pc, last, pre_nodes, snapshot,
          n_updates, n_changes, loaded_config>>

world == <<side, alive, layout, kind3, pos1>>

----------------------------------------------------------------------------
(* The theater: three ground objects, their groups and their units.        *)

Tgos == {"T1", "T2", "T3"}

\* The order in which the theater hands its ground objects to initialize_network.
TheaterOrder == <<"T1", "T2", "T3">>

\* A name the campaign config may use although no ground object carries it.
AbsentName == "X"

AllGroups == {"g1", "g2", "g3", "g4"}

AllUnits == {"u1", "u2", "u3", "u4", "u5"}

TgoGroups(t) ==
    CASE t = "T1" -> <<"g1", "g2">>
      [] t = "T2" -> <<"g3">>
      [] t = "T3" -> <<"g4">>

GroundObject(g) ==
    CASE g \in {"g1", "g2"} -> "T1"
      [] g = "g3" -> "T2"
      [] g = "g4" -> "T3"

GroupUnits(g) ==
    CASE g = "g1" -> <<"u1", "u2">>
      [] g = "g2" -> <<"u3">>
      [] g = "g3" -> <<"u4">>
      [] g = "g4" -> <<"u5">>

\* The roles the two groups of T1 may have, in the order of tgo.groups.
Layouts == {<<"Sam", "PD">>, <<"PD", "Sam">>, <<"Ewr", "Sam">>}

Kinds == {"ewr", "commandcenter", "comms", "ship"}

TgoClass(t) ==
    CASE t = "T1" -> "IadsGroundObject"
      [] t = "T2" -> "IadsBuildingGroundObject"
      [] t = "T3" -> CASE kind3 = "ewr" -> "IadsGroundObject"
                       [] kind3 = "ship" -> "NavalGroundObject"
                       [] OTHER -> "IadsBuildingGroundObject"

Category(t) ==
    CASE t = "T1" -> "aa"
      [] t = "T2" -> "power"
      [] t = "T3" -> kind3

Position(t) ==
    CASE t = "T1" -> pos1
      [] t = "T2" -> 0
      [] t = "T3" -> 1

DistanceToPoint(a, b) == IF a >= b THEN a - b ELSE b - a

InSeq(x, seq) == \E k \in 1..Len(seq) : seq[k] = x

\* IadsRole.for_category
ForCategory(category) ==
    CASE category = "comms" -> "ConnectionNode"
      [] category = "power" -> "PowerSource"
      [] category = "commandcenter" -> "CommandCenter"
      [] OTHER -> "NoBehavior"

\* IadsRole.is_comms_or_power
IsCommsOrPower(role) == role \in {"ConnectionNode", "PowerSource"}

\* IadsRole.participate
Participate(role) ==
    role \in {"Sam", "SamAsEwr", "Ewr", "CommandCenter", "ConnectionNode", "PowerSource"}

\* IadsRole.connection_range, in units of the line the theater lies on
ConnectionRange(role) ==
    CASE role = "ConnectionNode" -> 1
      [] role = "PowerSource" -> 2
      [] OTHER -> 0

\* isinstance(group, IadsGroundGroup) and group.iads_role
GroupRole(g) ==
    CASE g = "g1" -> layout[1]
      [] g = "g2" -> layout[2]
      [] g = "g3" -> ForCategory(Category("T2"))
      [] g = "g4" -> CASE kind3 = "ewr" -> "Ewr"
                       [] kind3 = "ship" -> "Sam"
                       [] OTHER -> ForCategory(kind3)

IsIadsGroundGroup(g) == GroupRole(g) # "TheaterGroup"

\* any(x.alive for x in group.units), group.alive_units > 0
AnyAlive(g) == \E k \in 1..Len(GroupUnits(g)) : alive[GroupUnits(g)[k]]

\* unit.is_static: the units of a building are statics
IsStatic(u) ==
    \E g \in AllGroups :
        /\ InSeq(u, GroupUnits(g))
        /\ TgoClass(GroundObject(g)) = "IadsBuildingGroundObject"

\* TheaterGroundObject.is_dead
IsDead(t) == \A k \in 1..Len(TgoGroups(t)) : ~AnyAlive(TgoGroups(t)[k])

----------------------------------------------------------------------------
(* Helpers on sequences and on the config dict.                            *)

CfgHas(cfg, key) == \E k \in 1..Len(cfg) : cfg[k].key = key

CfgGet(cfg, key) == cfg[CHOOSE k \in 1..Len(cfg) : cfg[k].key = key].conns

\* self.iads_config[key] on a defaultdict(list): a missing key is inserted
CfgTouch(cfg, key) ==
    IF CfgHas(cfg, key) THEN cfg ELSE Append(cfg, [key |-> key, conns |-> <<>>])

NodeEvent(node) == [kind |-> "update_iads_node", id |-> node.oid]

ConnEvent(cid) == [kind |-> "delete_iads_connection", id |-> cid]

----------------------------------------------------------------------------
(* IadsNetworkNode.  A network state s is                                  *)
(* [nodes, events, fresh, iads_config, ground_objects].                    *)

\* Mutant: the connection id is the position in the node's own dict.
AddConnectionForGroupByIndex(s, i, g) ==
    [s EXCEPT !.nodes[i].connections =
                  Append(@, [cid |-> Len(s.nodes[i].connections) + 1, group |-> g])]

\* IadsNetworkNode.add_connection_for_group on node s.nodes[i]
AddConnectionForGroup(s, i, g) ==
    [s EXCEPT !.nodes[i].connections = Append(@, [cid |-> s.fresh, group |-> g]),
              !.fresh = s.fresh + 1]

\* Mutant: the deletion takes every connection to the group of the id.
DeleteConnectionOfGroup(s, i, cid) ==
    LET gone == {c.group : c \in {s.nodes[i].connections[k] :
                                      k \in {m \in 1..Len(s.nodes[i].connections) :
                                                 s.nodes[i].connections[m].cid = cid}}}
    IN  [s EXCEPT !.nodes[i].connections = SelectSeq(@, LAMBDA c : c.group \notin gone)]

\* del node.connections[cID] on node s.nodes[i]
DeleteConnection(s, i, cid) ==
    [s EXCEPT !.nodes[i].connections = SelectSeq(@, LAMBDA c : c.cid # cid)]

RECURSIVE AddConnectionForGroups(_, _, _, _)
AddConnectionForGroups(s, i, groups, k) ==
    IF k > Len(groups) THEN s
    ELSE IF IsIadsGroundGroup(groups[k]) /\ Participate(GroupRole(groups[k]))
         THEN AddConnectionForGroups(AddConnectionForGroup(s, i, groups[k]), i, groups, k + 1)
         ELSE AddConnectionForGroups(s, i, groups, k + 1)

\* IadsNetworkNode.add_connection_for_tgo
AddConnectionForTgo(s, i, t) == AddConnectionForGroups(s, i, TgoGroups(t), 1)

----------------------------------------------------------------------------
(* IadsNetwork.                                                            *)

NodeTgo(node) == GroundObject(node.group)

\* IadsNetwork._is_friendly
IsFriendly(node, t) == side[NodeTgo(node)] = side[t]

\* IadsNetwork.node_for_group: the index of the node of group g
NodeForGroup(s, g) ==
    IF \E i \in 1..Len(s.nodes) : s.nodes[i].group = g
    THEN [s |-> s, idx |-> CHOOSE i \in 1..Len(s.nodes) :
                               /\ s.nodes[i].group = g
                               /\ \A j \in 1..(i - 1) : s.nodes[j].group # g]
    ELSE [s |-> [s EXCEPT !.nodes = Append(@, [oid |-> s.fresh, group |-> g,
                                                connections |-> <<>>]),
                          !.fresh = s.fresh + 1],
          idx |-> Len(s.nodes) + 1]

\* Mutant: every participating group with a living unit gets a node.
RECURSIVE NodeForTgoGroupsEach(_, _, _, _)
NodeForTgoGroupsEach(s, groups, k, idx) ==
    IF k > Len(groups) THEN [s |-> s, idx |-> idx]
    ELSE LET g == groups[k] IN
         IF IsIadsGroundGroup(g) /\ AnyAlive(g) /\ Participate(GroupRole(g))
         THEN LET r == NodeForGroup(s, g)
              IN  NodeForTgoGroupsEach(r.s, groups, k + 1, r.idx)
         ELSE NodeForTgoGroupsEach(s, groups, k + 1, idx)

\* Mutant: the first group with a living unit is the primary, whatever its role.
RECURSIVE NodeForTgoGroupsFirstAlive(_, _, _, _)
NodeForTgoGroupsFirstAlive(s, groups, k, idx) ==
    IF k > Len(groups) THEN [s |-> s, idx |-> idx]
    ELSE LET g == groups[k] IN
         IF IsIadsGroundGroup(g) /\ AnyAlive(g)
         THEN IF idx = 0
              THEN LET r == NodeForGroup(s, g)
                   IN  NodeForTgoGroupsFirstAlive(r.s, groups, k + 1, r.idx)
              ELSE IF GroupRole(g) = "PD"
                   THEN NodeForTgoGroupsFirstAlive(AddConnectionForGroup(s, idx, g),
                                                   groups, k + 1, idx)
                   ELSE NodeForTgoGroupsFirstAlive(s, groups, k + 1, idx)
         ELSE NodeForTgoGroupsFirstAlive(s, groups, k + 1, idx)

\* Mutant: a point defense after the primary gets a node of its own.
RECURSIVE NodeForTgoGroupsPointDefenseNode(_, _, _, _)
NodeForTgoGroupsPointDefenseNode(s, groups, k, idx) ==
    IF k > Len(groups) THEN [s |-> s, idx |-> idx]
    ELSE LET g == groups[k] IN
         IF IsIadsGroundGroup(g) /\ AnyAlive(g)
         THEN IF idx = 0 /\ Participate(GroupRole(g))
              THEN LET r == NodeForGroup(s, g)
                   IN  NodeForTgoGroupsPointDefenseNode(r.s, groups, k + 1, r.idx)
              ELSE IF idx # 0 /\ GroupRole(g) = "PD"
                   THEN NodeForTgoGroupsPointDefenseNode(NodeForGroup(s, g).s,
                                                         groups, k + 1, idx)
                   ELSE NodeForTgoGroupsPointDefenseNode(s, groups, k + 1, idx)
         ELSE NodeForTgoGroupsPointDefenseNode(s, groups, k + 1, idx)

\* The loop of node_for_tgo over tgo.groups; idx = 0 is node = None.
RECURSIVE NodeForTgoGroups(_, _, _, _)
NodeForTgoGroups(s, groups, k, idx) ==
    IF k > Len(groups) THEN [s |-> s, idx |-> idx]
    ELSE LET g == groups[k] IN
         IF IsIadsGroundGroup(g) /\ AnyAlive(g)
         THEN IF idx = 0 /\ Participate(GroupRole(g))
              THEN LET r == NodeForGroup(s, g)
                   IN  NodeForTgoGroups(r.s, groups, k + 1, r.idx)
              ELSE IF idx # 0 /\ GroupRole(g) = "PD"
                   THEN NodeForTgoGroups(AddConnectionForGroup(s, idx, g), groups, k + 1, idx)
                   ELSE NodeForTgoGroups(s, groups, k + 1, idx)
         ELSE NodeForTgoGroups(s, groups, k + 1, idx)

\* IadsNetwork.node_for_tgo
NodeForTgo(s, t) ==
    IF \E i \in 1..Len(s.nodes) : NodeTgo(s.nodes[i]) = t
    THEN [s |-> s, idx |-> CHOOSE i \in 1..Len(s.nodes) :
                               /\ NodeTgo(s.nodes[i]) = t
                               /\ \A j \in 1..(i - 1) : NodeTgo(s.nodes[j]) # t]
    ELSE NodeForTgoGroups(s, TgoGroups(t), 1, 0)

\* Mutant: the range resolution does not look at the side of the candidate.
RECURSIVE ConnectionsByRangeAnySide(_, _, _)
ConnectionsByRangeAnySide(s, i, k) ==
    IF k > Len(s.ground_objects) THEN s
    ELSE LET nearby_go == s.ground_objects[k]
             tgo == NodeTgo(s.nodes[i])
             iads_role == ForCategory(Category(nearby_go))
             dist == DistanceToPoint(Position(nearby_go), Position(tgo))
         IN  IF ~IsCommsOrPower(iads_role) \/ nearby_go = tgo
             THEN ConnectionsByRangeAnySide(s, i, k + 1)
             ELSE IF dist <= ConnectionRange(iads_role)
                  THEN ConnectionsByRangeAnySide(AddConnectionForTgo(s, i, nearby_go), i, k + 1)
                  ELSE ConnectionsByRangeAnySide(s, i, k + 1)

\* The loop of _make_advanced_connections_by_range over self.ground_objects
RECURSIVE ConnectionsByRange(_, _, _)
ConnectionsByRange(s, i, k) ==
    IF k > Len(s.ground_objects) THEN s
    ELSE LET nearby_go == s.ground_objects[k]
             tgo == NodeTgo(s.nodes[i])
             iads_role == ForCategory(Category(nearby_go))
             dist == DistanceToPoint(Position(nearby_go), Position(tgo))
             in_range == dist <= ConnectionRange(iads_role)
         IN  IF ~IsCommsOrPower(iads_role) \/ nearby_go = tgo
             THEN ConnectionsByRange(s, i, k + 1)
             ELSE IF in_range /\ IsFriendly(s.nodes[i], nearby_go)
                  THEN ConnectionsByRange(AddConnectionForTgo(s, i, nearby_go), i, k + 1)
                  ELSE ConnectionsByRange(s, i, k + 1)

\* IadsNetwork._make_advanced_connections_by_range
MakeAdvancedConnectionsByRange(s, i) == ConnectionsByRange(s, i, 1)

\* Mutant: the KeyError of an absent secondary name ends the loop.
RECURSIVE ConnectionsFromConfigUntilAbsent(_, _, _, _)
ConnectionsFromConfigUntilAbsent(s, i, connections, k) ==
    IF k > Len(connections) THEN s
    ELSE IF InSeq(connections[k], s.ground_objects)
         THEN ConnectionsFromConfigUntilAbsent(AddConnectionForTgo(s, i, connections[k]),
                                               i, connections, k + 1)
         ELSE s

\* The loop of _add_connections_from_config over the secondary names
RECURSIVE ConnectionsFromConfig(_, _, _, _)
ConnectionsFromConfig(s, i, connections, k) ==
    IF k > Len(connections) THEN s
    ELSE IF InSeq(connections[k], s.ground_objects)
         THEN ConnectionsFromConfig(AddConnectionForTgo(s, i, connections[k]),
                                    i, connections, k + 1)
         ELSE ConnectionsFromConfig(s, i, connections, k + 1)

\* IadsNetwork._add_connections_from_config
AddConnectionsFromConfig(s, i) ==
    LET primary_node == NodeTgo(s.nodes[i])
        touched == [s EXCEPT !.iads_config = CfgTouch(@, primary_node)]
    IN  ConnectionsFromConfig(touched, i, CfgGet(touched.iads_config, primary_node), 1)

\* list.remove(cn): the first element that is cn goes
RemoveNode(seq, cn) ==
    LET j == CHOOSE j \in 1..Len(seq) :
                 /\ seq[j].oid = cn.oid
                 /\ \A m \in 1..(j - 1) : seq[m].oid # cn.oid
    IN  [m \in 1..(Len(seq) - 1) |-> IF m < j THEN seq[m] ELSE seq[m + 1]]

\* Mutant: the nodes go without a word to the event sink.
RECURSIVE RemoveNodesForTgoSilent(_, _, _)
RemoveNodesForTgoSilent(s, t, i) ==
    IF i > Len(s.nodes) THEN s
    ELSE IF NodeTgo(s.nodes[i]) = t
         THEN RemoveNodesForTgoSilent([s EXCEPT !.nodes = RemoveNode(@, s.nodes[i])], t, i + 1)
         ELSE RemoveNodesForTgoSilent(s, t, i + 1)

\* The loop "for cn in self.nodes" of update_tgo, which removes from the list
\* it iterates: i is the position of the list iterator, which moves on by one
\* after a removal as after any other step.
RECURSIVE RemoveNodesForTgo(_, _, _)
RemoveNodesForTgo(s, t, i) ==
    IF i > Len(s.nodes) THEN s
    ELSE LET cn == s.nodes[i] IN
         IF NodeTgo(cn) = t
         THEN RemoveNodesForTgo(
                  [s EXCEPT !.nodes = RemoveNode(@, cn),
                            !.events = @ \o [k \in 1..Len(cn.connections) |->
                                                ConnEvent(cn.connections[k].cid)]],
                  t, i + 1)
         ELSE RemoveNodesForTgo(s, t, i + 1)

\* Mutant: the reactive range test is inclusive, as the one of the node side.
RECURSIVE UpdateNetworkNodesInclusive(_, _, _)
UpdateNetworkNodesInclusive(s, t, i) ==
    IF i > Len(s.nodes) THEN s
    ELSE LET node == s.nodes[i]
             dist == DistanceToPoint(Position(NodeTgo(node)), Position(t))
         IN  IF dist <= ConnectionRange(ForCategory(Category(t))) /\ IsFriendly(node, t)
             THEN LET s1 == AddConnectionForTgo(s, i, t)
                  IN  UpdateNetworkNodesInclusive(
                          [s1 EXCEPT !.events = Append(@, NodeEvent(node))], t, i + 1)
             ELSE UpdateNetworkNodesInclusive(s, t, i + 1)

\* The loop of _update_network over self.nodes
RECURSIVE UpdateNetworkNodes(_, _, _)
UpdateNetworkNodes(s, t, i) ==
    IF i > Len(s.nodes) THEN s
    ELSE LET node == s.nodes[i]
             iads_role == ForCategory(Category(t))
             dist == DistanceToPoint(Position(NodeTgo(node)), Position(t))
             in_range == dist < ConnectionRange(iads_role)
         IN  IF in_range /\ IsFriendly(node, t)
             THEN LET s1 == AddConnectionForTgo(s, i, t)
                  IN  UpdateNetworkNodes([s1 EXCEPT !.events = Append(@, NodeEvent(node))],
                                         t, i + 1)
             ELSE UpdateNetworkNodes(s, t, i + 1)

\* Mutant: a dead installation originates links like a living one.
UpdateNetworkOfDead(s, t) ==
    IF ~IsCommsOrPower(ForCategory(Category(t))) THEN s
    ELSE UpdateNetworkNodes(s, t, 1)

\* IadsNetwork._update_network
UpdateNetwork(s, t) ==
    IF IsDead(t) THEN s
    ELSE IF ~IsCommsOrPower(ForCategory(Category(t))) THEN s
    ELSE UpdateNetworkNodes(s, t, 1)

\* Mutant: the ids are reported to the sink and never deleted from the node.
RECURSIVE CommsAndPowerNodesKept(_, _, _)
CommsAndPowerNodesKept(s, t, i) ==
    IF i > Len(s.nodes) THEN s
    ELSE LET node == s.nodes[i]
             hit == SelectSeq(node.connections, LAMBDA c : GroundObject(c.group) = t)
             calls == [k \in 1..Len(hit) |->
                          IF IsFriendly(node, t) THEN NodeEvent(node)
                          ELSE ConnEvent(hit[k].cid)]
         IN  CommsAndPowerNodesKept([s EXCEPT !.events = @ \o calls], t, i + 1)

\* Mutant: a destroyed installation is handled as a captured one.
RECURSIVE CommsAndPowerNodesCaptured(_, _, _)
CommsAndPowerNodesCaptured(s, t, i) ==
    IF i > Len(s.nodes) THEN s
    ELSE LET node == s.nodes[i]
             hit == SelectSeq(node.connections, LAMBDA c : GroundObject(c.group) = t)
             calls == [k \in 1..Len(hit) |-> ConnEvent(hit[k].cid)]
             kept == SelectSeq(node.connections, LAMBDA c : GroundObject(c.group) # t)
         IN  CommsAndPowerNodesCaptured([s EXCEPT !.nodes[i].connections = kept,
                                                  !.events = @ \o calls],
                                        t, i + 1)

\* The loop of _update_iads_comms_and_power over self.nodes: for every
\* connection of the node into tgo, in the order of the dict, one call on
\* events; the ids in to_delete leave the node once its connections are scanned.
RECURSIVE CommsAndPowerNodes(_, _, _)
CommsAndPowerNodes(s, t, i) ==
    IF i > Len(s.nodes) THEN s
    ELSE LET node == s.nodes[i]
             hit == SelectSeq(node.connections, LAMBDA c : GroundObject(c.group) = t)
             friendly == IsFriendly(node, t)
             calls == [k \in 1..Len(hit) |->
                          IF friendly THEN NodeEvent(node) ELSE ConnEvent(hit[k].cid)]
             to_delete == IF friendly THEN {} ELSE {hit[k].cid : k \in 1..Len(hit)}
             kept == SelectSeq(node.connections, LAMBDA c : c.cid \notin to_delete)
         IN  CommsAndPowerNodes([s EXCEPT !.nodes[i].connections = kept,
                                          !.events = @ \o calls],
                                t, i + 1)

\* IadsNetwork._update_iads_comms_and_power (its two assertions hold at its
\* only call site, in update_tgo)
UpdateIadsCommsAndPower(s, t) ==
    LET s1 == CommsAndPowerNodes(s, t, 1)
    IN  IF Len(s1.iads_config) = 0 THEN UpdateNetwork(s1, t) ELSE s1

\* IadsNetwork.update_tgo
UpdateTgo(s, t) ==
    IF advanced_iads /\ IsCommsOrPower(ForCategory(Category(t)))
    THEN UpdateIadsCommsAndPower(s, t)
    ELSE LET s1 == RemoveNodesForTgo(s, t, 1)
             r == NodeForTgo(s1, t)
         IN  IF r.idx = 0 THEN r.s
             ELSE LET s2 == [r.s EXCEPT !.events = Append(@, NodeEvent(r.s.nodes[r.idx]))]
                  IN  IF advanced_iads
                      THEN IF Len(s2.iads_config) > 0
                           THEN AddConnectionsFromConfig(s2, r.idx)
                           ELSE MakeAdvancedConnectionsByRange(s2, r.idx)
                      ELSE s2

\* The loop of initialize_network_from_config over self.iads_config.keys()
RECURSIVE FromConfigKeys(_, _)
FromConfigKeys(s, k) ==
    IF k > Len(s.iads_config) THEN s
    ELSE LET primary_node == s.iads_config[k].key IN
         IF InSeq(primary_node, s.ground_objects)
         THEN LET r == NodeForTgo(s, primary_node)
              IN  IF r.idx = 0 THEN FromConfigKeys(r.s, k + 1)
                  ELSE FromConfigKeys(AddConnectionsFromConfig(r.s, r.idx), k + 1)
         ELSE FromConfigKeys(s, k + 1)

\* IadsNetwork.initialize_network_from_config
InitializeNetworkFromConfig(s) == FromConfigKeys(s, 1)

\* The loop of initialize_network_from_range over self.ground_objects
RECURSIVE FromRangeObjects(_, _)
FromRangeObjects(s, k) ==
    IF k > Len(s.ground_objects) THEN s
    ELSE LET go == s.ground_objects[k]
             is_iads_go == TgoClass(go) = "IadsGroundObject"
             is_iads_sea == TgoClass(go) = "NavalGroundObject"
             is_iads_cc == /\ TgoClass(go) = "IadsBuildingGroundObject"
                           /\ ForCategory(Category(go)) = "CommandCenter"
         IN  IF is_iads_go \/ is_iads_sea \/ is_iads_cc
             THEN LET r == NodeForTgo(s, go)
                  IN  IF r.idx = 0 THEN FromRangeObjects(r.s, k + 1)
                      ELSE FromRangeObjects(MakeAdvancedConnectionsByRange(r.s, r.idx), k + 1)
             ELSE FromRangeObjects(s, k + 1)

\* IadsNetwork.initialize_network_from_range
InitializeNetworkFromRange(s) == FromRangeObjects(s, 1)

\* Mutant: the basic pass resolves connections by range as the advanced one.
RECURSIVE BasicObjectsByRange(_, _)
BasicObjectsByRange(s, k) ==
    IF k > Len(s.ground_objects) THEN s
    ELSE IF TgoClass(s.ground_objects[k]) = "IadsGroundObject"
         THEN LET r == NodeForTgo(s, s.ground_objects[k])
              IN  IF r.idx = 0 THEN BasicObjectsByRange(r.s, k + 1)
                  ELSE BasicObjectsByRange(MakeAdvancedConnectionsByRange(r.s, r.idx), k + 1)
         ELSE BasicObjectsByRange(s, k + 1)

\* The loop of initialize_basic_iads over self.ground_objects
RECURSIVE BasicObjects(_, _)
BasicObjects(s, k) ==
    IF k > Len(s.ground_objects) THEN s
    ELSE IF TgoClass(s.ground_objects[k]) = "IadsGroundObject"
         THEN BasicObjects(NodeForTgo(s, s.ground_objects[k]).s, k + 1)
         ELSE BasicObjects(s, k + 1)

\* Mutant: the fallback to basic mode is missing.
InitializeBasicIadsNever(s) == s

\* IadsNetwork.initialize_basic_iads
InitializeBasicIads(s) == BasicObjects(s, 1)

\* The advanced branch of initialize_network, after the registry is filled
AdvancedPass(s, objects) ==
    LET s0 == [s EXCEPT !.ground_objects = objects]
    IN  IF advanced_iads
        THEN IF Len(s0.iads_config) > 0
             THEN InitializeNetworkFromConfig(s0)
             ELSE InitializeNetworkFromRange(s0)
        ELSE s0

\* IadsNetwork.initialize_network
InitializeNetwork(s, objects) ==
    LET s1 == AdvancedPass(s, objects)
    IN  IF Len(s1.nodes) = 0 THEN InitializeBasicIads(s1) ELSE s1

----------------------------------------------------------------------------
(* SkynetNode and IadsNetwork.skynet_nodes.                                *)

\* What dcs_name_for_group yields when it raises IadsNetworkException.
Raised == "IadsNetworkException"

\* The values of IadsRole, the keys of SkynetNode.connections.
RoleValues == {"Sam", "SamAsEwr", "Ewr", "PD", "CommandCenter", "ConnectionNode",
               "PowerSource", "NoBehavior"}

\* SkynetNode.dcs_name_for_group: unit and group names are their identities
DcsNameForGroup(g) ==
    LET units == GroupUnits(g) IN
    IF GroupRole(g) \in {"Ewr", "CommandCenter", "ConnectionNode", "PowerSource"}
    THEN IF \E k \in 1..Len(units) : alive[units[k]]
         THEN units[CHOOSE k \in 1..Len(units) :
                        /\ alive[units[k]]
                        /\ \A m \in 1..(k - 1) : ~alive[units[m]]]
         ELSE IF IsStatic(units[1]) THEN units[1] ELSE Raised
    ELSE g

\* SkynetNode.from_group, without the property bag of the unit type
FromGroup(g) ==
    [dcs_name |-> DcsNameForGroup(g),
     player |-> side[GroundObject(g)],
     iads_role |-> GroupRole(g),
     connections |-> [r \in RoleValues |-> <<>>]]

\* Mutant: a connection is listed whatever the side of its ground object.
RECURSIVE SkynetConnectionsAnySide(_, _, _, _)
SkynetConnectionsAnySide(sn, conns, k, cull) ==
    IF k > Len(conns) \/ sn.dcs_name = Raised THEN sn
    ELSE LET connection == conns[k].group IN
         IF ~AnyAlive(connection) THEN SkynetConnectionsAnySide(sn, conns, k + 1, cull)
         ELSE IF GroundObject(connection) \notin cull
              THEN IF DcsNameForGroup(connection) = Raised
                   THEN [sn EXCEPT !.dcs_name = Raised]
                   ELSE SkynetConnectionsAnySide(
                            [sn EXCEPT !.connections[GroupRole(connection)] =
                                           Append(@, DcsNameForGroup(connection))],
                            conns, k + 1, cull)
              ELSE SkynetConnectionsAnySide(sn, conns, k + 1, cull)

\* Mutant: a connection whose group has no living unit is not skipped.
RECURSIVE SkynetConnectionsOfDead(_, _, _, _)
SkynetConnectionsOfDead(sn, conns, k, cull) ==
    IF k > Len(conns) \/ sn.dcs_name = Raised THEN sn
    ELSE LET connection == conns[k].group IN
         IF /\ side[GroundObject(connection)] = sn.player
            /\ GroundObject(connection) \notin cull
         THEN IF DcsNameForGroup(connection) = Raised
              THEN [sn EXCEPT !.dcs_name = Raised]
              ELSE SkynetConnectionsOfDead(
                       [sn EXCEPT !.connections[GroupRole(connection)] =
                                      Append(@, DcsNameForGroup(connection))],
                       conns, k + 1, cull)
         ELSE SkynetConnectionsOfDead(sn, conns, k + 1, cull)

\* The loop of skynet_nodes over node.connections.values(); an exception
\* leaves the loop with dcs_name = Raised.
RECURSIVE SkynetConnections(_, _, _, _)
SkynetConnections(sn, conns, k, cull) ==
    IF k > Len(conns) \/ sn.dcs_name = Raised THEN sn
    ELSE LET connection == conns[k].group IN
         IF ~AnyAlive(connection) THEN SkynetConnections(sn, conns, k + 1, cull)
         ELSE IF /\ side[GroundObject(connection)] = sn.player
                 /\ GroundObject(connection) \notin cull
              THEN IF DcsNameForGroup(connection) = Raised
                   THEN [sn EXCEPT !.dcs_name = Raised]
                   ELSE SkynetConnections(
                            [sn EXCEPT !.connections[GroupRole(connection)] =
                                           Append(@, DcsNameForGroup(connection))],
                            conns, k + 1, cull)
              ELSE SkynetConnections(sn, conns, k + 1, cull)

\* The loop of skynet_nodes over self.nodes; cull is the set of ground
\* objects game.iads_considerate_culling is true of.
RECURSIVE SkynetNodesFrom(_, _, _, _)
SkynetNodesFrom(ns, i, cull, out) ==
    IF i > Len(ns) THEN [raised |-> FALSE, nodes |-> out]
    ELSE IF NodeTgo(ns[i]) \in cull THEN SkynetNodesFrom(ns, i + 1, cull, out)
    ELSE IF ~AnyAlive(ns[i].group) THEN SkynetNodesFrom(ns, i + 1, cull, out)
    ELSE LET sn == SkynetConnections(FromGroup(ns[i].group), ns[i].connections, 1, cull)
         IN  IF sn.dcs_name = Raised THEN [raised |-> TRUE, nodes |-> <<>>]
             ELSE SkynetNodesFrom(ns, i + 1, cull, Append(out, sn))

\* IadsNetwork.skynet_nodes
SkynetNodes(ns, cull) == SkynetNodesFrom(ns, 1, cull, <<>>)

----------------------------------------------------------------------------
(* The state machine.                                                      *)

\* The iads_data lists of the campaigns, as IadsNetwork.__init__ loads them.
Configs ==
    { <<>>,
      <<[key |-> AbsentName, conns |-> <<>>],
        [key |-> "T1", conns |-> <<AbsentName, "T2", "T3">>]>>,
      <<[key |-> "T2", conns |-> <<"T1">>], [key |-> "T3", conns |-> <<>>]>> }

Self == [nodes |-> nodes, events |-> <<>>, fresh |-> fresh,
         iads_config |-> iads_config, ground_objects |-> ground_objects]

NoCall == [op |-> "none", tgo |-> "none"]

NoSnapshot == [cull |-> {}, raised |-> FALSE, nodes |-> <<>>]

\* IadsNetwork.__init__, in a theater whose units all live on one side
Init ==
    /\ advanced_iads \in BOOLEAN
    /\ iads_config \in Configs
    /\ ~advanced_iads => iads_config = <<>>
    /\ ground_objects = <<>>
    /\ nodes = <<>>
    /\ events = <<>>
    /\ fresh = 1
    /\ side = [t \in Tgos |-> TRUE]
    /\ alive = [u \in AllUnits |-> TRUE]
    /\ layout \in Layouts
    /\ kind3 \in Kinds
    /\ pos1 \in 0..MaxPos
    /\ (~advanced_iads \/ iads_config # <<>>) => pos1 = 1
    /\ loaded_config = iads_config
    /\ pc = "constructed"
    /\ last = NoCall
    /\ pre_nodes = <<>>
    /\ snapshot = NoSnapshot
    /\ n_updates = 0
    /\ n_changes = 0

Settle(s, call) ==
    /\ nodes' = s.nodes
    /\ events' = s.events
    /\ fresh' = s.fresh
    /\ iads_config' = s.iads_config
    /\ ground_objects' = s.ground_objects
    /\ pre_nodes' = nodes
    /\ last' = call
    /\ snapshot' = NoSnapshot

Initialize ==
    /\ pc = "constructed"
    /\ pc' = "ready"
    /\ Settle(InitializeNetwork(Self, TheaterOrder), [op |-> "initialize", tgo |-> "none"])
    /\ UNCHANGED <<advanced_iads, world, n_updates, n_changes, loaded_config>>

Update(t) ==
    /\ pc = "ready"
    /\ n_updates < MaxUpdates
    /\ n_updates' = n_updates + 1
    /\ Settle(UpdateTgo(Self, t), [op |-> "update", tgo |-> t])
    /\ UNCHANGED <<advanced_iads, world, pc, n_changes, loaded_config>>

\* A change of the theater before a call that can still be made.
Changed ==
    /\ n_changes < MaxChanges
    /\ n_updates < MaxUpdates
    /\ n_changes' = n_changes + 1
    /\ events' = <<>>
    /\ pre_nodes' = nodes
    /\ last' = NoCall
    /\ snapshot' = NoSnapshot
    /\ UNCHANGED <<advanced_iads, iads_config, ground_objects, nodes, fresh,
                   layout, kind3, pos1, pc, n_updates, loaded_config>>

Capture(t) ==
    /\ side' = [side EXCEPT ![t] = ~@]
    /\ UNCHANGED alive
    /\ Changed

Kill(u) ==
    /\ alive[u]
    /\ alive' = [alive EXCEPT ![u] = FALSE]
    /\ UNCHANGED side
    /\ Changed

Repair(u) ==
    /\ ~alive[u]
    /\ alive' = [alive EXCEPT ![u] = TRUE]
    /\ UNCHANGED side
    /\ Changed

Next ==
    \/ Initialize
    \/ \E t \in Tgos : Update(t)
    \/ \E t \in Tgos : Capture(t)
    \/ \E u \in AllUnits : Kill(u)
    \/ \E u \in AllUnits : Repair(u)

Spec == Init /\ [][Next]_vars

\* skynet_nodes, called by the Lua generator with the culling of the game;
\* it changes nothing, so a second call in a row reaches nothing new.
Project(cull) ==
    /\ pc = "ready"
    /\ last.op # "project"
    /\ snapshot' = [cull |-> cull] @@ SkynetNodes(nodes, cull)
    /\ last' = [op |-> "project", tgo |-> "none"]
    /\ events' = <<>>
    /\ pre_nodes' = nodes
    /\ UNCHANGED <<advanced_iads, iads_config, ground_objects, nodes, fresh, world,
                   pc, n_updates, n_changes, loaded_config>>

\* The campaigns the projection is explored in: advanced networks, whose
\* nodes hold connections to other ground objects, with T1 next to T3.
InitProject ==
    /\ Init
    /\ advanced_iads
    /\ pos1 = 1
    /\ kind3 \in {"ewr", "comms"}
    /\ iads_config \in {<<>>, <<[key |-> AbsentName, conns |-> <<>>],
                                [key |-> "T1", conns |-> <<AbsentName, "T2", "T3">>]>>}

NextProject ==
    \/ Next
    \/ \E cull \in SUBSET Tgos : Project(cull)

SpecProject == InitProject /\ [][NextProject]_vars

\* add_connection_for_group on a node of the graph, after the last
\* update_tgo call of the exploration; the call records the id the
\* connection got.
AddConnection(i, g) ==
    /\ pc = "ready"
    /\ last.op = "update"
    /\ n_updates = MaxUpdates
    /\ i \in 1..Len(nodes)
    /\ LET s == AddConnectionForGroup(Self, i, g)
           given == s.nodes[i].connections[Len(s.nodes[i].connections)].cid
       IN  /\ nodes' = s.nodes
           /\ fresh' = s.fresh
           /\ last' = [op |-> "add", tgo |-> "none", node |-> i, group |-> g,
                       cid |-> given]
    /\ pre_nodes' = nodes
    /\ events' = <<>>
    /\ snapshot' = NoSnapshot
    /\ UNCHANGED <<advanced_iads, iads_config, ground_objects, world, pc,
                   n_updates, n_changes, loaded_config>>

\* del node.connections[cID] with the id of the connection just added;
\* pre_nodes stays the node list from before the addition.
DeleteAdded ==
    /\ last.op = "add"
    /\ nodes' = DeleteConnection(Self, last.node, last.cid).nodes
    /\ last' = [last EXCEPT !.op = "delete"]
    /\ events' = <<>>
    /\ snapshot' = NoSnapshot
    /\ UNCHANGED <<advanced_iads, iads_config, ground_objects, fresh, world, pc,
                   pre_nodes, n_updates, n_changes, loaded_config>>

\* The campaigns the node operations are explored in: advanced networks,
\* with T1 next to T3.
InitRoundTrip ==
    /\ Init
    /\ advanced_iads
    /\ pos1 = 1
    /\ kind3 \in {"ewr", "comms"}

NextRoundTrip ==
    \/ Next
    \/ \E i \in 1..Cardinality(Tgos) : \E g \in AllGroups : AddConnection(i, g)
    \/ DeleteAdded

SpecRoundTrip == InitRoundTrip /\ [][NextRoundTrip]_vars

----------------------------------------------------------------------------
(* Vocabulary of the properties.                                           *)

NodesOn(ns, t) == {i \in 1..Len(ns) : NodeTgo(ns[i]) = t}

Oids(ns) == {ns[i].oid : i \in 1..Len(ns)}

ConnsOf(node) == {node.connections[k] : k \in 1..Len(node.connections)}

ConnIds(node) == {c.cid : c \in ConnsOf(node)}

ConnsInto(node, t) == {c \in ConnsOf(node) : GroundObject(c.group) = t}

GraphIds(ns) == UNION {ConnIds(ns[i]) : i \in 1..Len(ns)}

Emitted(e) == Cardinality({k \in 1..Len(events) : events[k] = e})

EmittedKind(kind) == Cardinality({k \in 1..Len(events) : events[k].kind = kind})

HasAliveParticipant(t) ==
    \E k \in 1..Len(TgoGroups(t)) :
        LET g == TgoGroups(t)[k]
        IN  IsIadsGroundGroup(g) /\ Participate(GroupRole(g)) /\ AnyAlive(g)

Infrastructure(t) == IsCommsOrPower(ForCategory(Category(t)))

RangeMode == advanced_iads /\ iads_config = <<>>

\* The last call was update_tgo and took the comms/power path.
InfraUpdate == last.op = "update" /\ advanced_iads /\ Infrastructure(last.tgo)

\* The last call was update_tgo and took the primary-node path.
PrimaryUpdate == last.op = "update" /\ ~(advanced_iads /\ Infrastructure(last.tgo))

Initialized == last.op = "initialize"

Distance(t, u) == DistanceToPoint(Position(t), Position(u))

RangeOf(t) == ConnectionRange(ForCategory(Category(t)))

\* The network as __init__ left it, which is what initialize_network starts from.
Constructed == [nodes |-> <<>>, events |-> <<>>, fresh |-> 1,
                iads_config |-> iads_config, ground_objects |-> <<>>]

\* initialize_network found no node after its config or range pass.
FellBack == Initialized /\ Len(AdvancedPass(Constructed, TheaterOrder).nodes) = 0

\* The installations the pass that built the graph takes as primaries.
ConfigPrimary(t) == CfgHas(iads_config, t)

RangePrimary(t) ==
    \/ TgoClass(t) \in {"IadsGroundObject", "NavalGroundObject"}
    \/ TgoClass(t) = "IadsBuildingGroundObject" /\ Category(t) = "commandcenter"

BasicPrimary(t) == TgoClass(t) = "IadsGroundObject"

PassPrimary(t) ==
    /\ advanced_iads
    /\ IF iads_config # <<>> THEN ConfigPrimary(t) ELSE RangePrimary(t)

Primary(t) ==
    IF \E u \in Tgos : PassPrimary(u) /\ HasAliveParticipant(u)
    THEN PassPrimary(t)
    ELSE BasicPrimary(t)

----------------------------------------------------------------------------
(* Properties.                                                             *)

\* C1: after initialize_network and any sequence of update_tgo calls, with
\* sides and units changing between the calls, at most one node is anchored
\* on any ground object.
C1_AtMostOneNodePerTgo ==
    \A t \in Tgos : Cardinality(NodesOn(nodes, t)) <= 1

\* update_tgo replaced the node of a ground object with two living
\* participating groups, next to the node of another ground object.
C1_Witness ==
    /\ PrimaryUpdate
    /\ last.tgo = "T1"
    /\ layout = <<"Ewr", "Sam">>
    /\ AnyAlive("g1") /\ AnyAlive("g2")
    /\ NodesOn(pre_nodes, "T1") # {}
    /\ Cardinality(NodesOn(nodes, "T1")) = 1
    /\ Len(nodes) >= 2

\* C2 as stated: after initialize_network every ground object with a living
\* participating group has exactly one node, in every mode.
C2_NodeForEveryParticipant ==
    Initialized =>
        \A t \in Tgos : HasAliveParticipant(t) => Cardinality(NodesOn(nodes, t)) = 1

\* C2 amended: after initialize_network a ground object has exactly one node
\* if it has a living participating group and is a primary of the pass that
\* built the graph (a key of the config; in range mode an IADS ground object,
\* a naval object or a command-center building; an IADS ground object when
\* the network is basic or fell back to basic), and no node otherwise.
C2_NodeForEveryPrimary ==
    Initialized =>
        \A t \in Tgos :
            Cardinality(NodesOn(nodes, t)) =
                IF Primary(t) /\ HasAliveParticipant(t) THEN 1 ELSE 0

\* Range mode gave nodes to two primaries and none to the living power source.
C2_Witness ==
    /\ Initialized
    /\ RangeMode
    /\ Len(nodes) = 2
    /\ HasAliveParticipant("T2")
    /\ NodesOn(nodes, "T2") = {}

\* C3: update_tgo of a comms/power ground object B in advanced mode removes
\* every connection into B from a node whose side differs from B's, emits
\* exactly one delete_iads_connection with the id of each, and leaves no
\* node of another side than B's with a connection into B.
C3_Capture ==
    InfraUpdate =>
        /\ \A i \in 1..Len(pre_nodes) :
               ~IsFriendly(pre_nodes[i], last.tgo) =>
                   \A c \in ConnsInto(pre_nodes[i], last.tgo) :
                       /\ \E j \in 1..Len(nodes) :
                              /\ nodes[j].oid = pre_nodes[i].oid
                              /\ c.cid \notin ConnIds(nodes[j])
                       /\ c.cid \notin GraphIds(nodes)
                       /\ Emitted(ConnEvent(c.cid)) = 1
        /\ \A j \in 1..Len(nodes) :
               ~IsFriendly(nodes[j], last.tgo) => ConnsInto(nodes[j], last.tgo) = {}

\* A node held a connection into a comms/power ground object of the other
\* side when update_tgo was called for it.
C3_Witness ==
    /\ InfraUpdate
    /\ \E i \in 1..Len(pre_nodes) :
           /\ ~IsFriendly(pre_nodes[i], last.tgo)
           /\ ConnsInto(pre_nodes[i], last.tgo) # {}

\* C4 as stated: when update_tgo is called in advanced mode for a dead
\* comms/power ground object B, a node N of B's side with exactly one
\* connection into B keeps that connection under its id, update_iads_node
\* is called exactly once for N, and delete_iads_connection is not called.
C4_NoDeletionAtAll ==
    (InfraUpdate /\ IsDead(last.tgo)) =>
        \A i \in 1..Len(pre_nodes) :
            LET n == pre_nodes[i] IN
            (IsFriendly(n, last.tgo) /\ Cardinality(ConnsInto(n, last.tgo)) = 1) =>
                /\ \E j \in 1..Len(nodes) :
                       /\ nodes[j].oid = n.oid
                       /\ ConnsInto(n, last.tgo) \subseteq ConnsOf(nodes[j])
                /\ Emitted(NodeEvent(n)) = 1
                /\ EmittedKind("delete_iads_connection") = 0

\* C4 amended: when update_tgo is called in advanced mode for a dead
\* comms/power ground object B, a node N of B's side with exactly one
\* connection into B keeps that connection under its id, update_iads_node
\* is called exactly once for N, and delete_iads_connection is called for
\* no connection of N (it is called for the connections into B of the nodes
\* of the other side).
C4_DestroyedNotCaptured ==
    (InfraUpdate /\ IsDead(last.tgo)) =>
        \A i \in 1..Len(pre_nodes) :
            LET n == pre_nodes[i] IN
            (IsFriendly(n, last.tgo) /\ Cardinality(ConnsInto(n, last.tgo)) = 1) =>
                /\ \E j \in 1..Len(nodes) :
                       /\ nodes[j].oid = n.oid
                       /\ ConnsInto(n, last.tgo) \subseteq ConnsOf(nodes[j])
                /\ Emitted(NodeEvent(n)) = 1
                /\ \A c \in ConnsOf(n) : Emitted(ConnEvent(c.cid)) = 0

\* update_tgo was called for a dead power source to which a node of its side
\* held one connection.
C4_Witness ==
    /\ InfraUpdate
    /\ IsDead(last.tgo)
    /\ \E i \in 1..Len(pre_nodes) :
           /\ IsFriendly(pre_nodes[i], last.tgo)
           /\ Cardinality(ConnsInto(pre_nodes[i], last.tgo)) = 1

\* The nodes whose connections the last call resolved by range from the node
\* side: all of them at initialize_network, the new one at update_tgo.
ResolvedByRange ==
    IF ~RangeMode THEN {}
    ELSE IF Initialized THEN 1..Len(nodes)
    ELSE IF PrimaryUpdate THEN NodesOn(nodes, last.tgo)
    ELSE {}

\* C5 as stated: in range mode, for a node N and a comms/power ground object
\* B of N's side, resolution from the node side (initialize_network,
\* update_tgo of N's ground object) connects N to B iff distance <= B's
\* range, and update_tgo of B gives N a new connection into B iff
\* distance < B's range.
C5_RangeBoundaryDeadOrAlive ==
    /\ \A i \in ResolvedByRange : \A b \in Tgos :
           (Infrastructure(b) /\ b # NodeTgo(nodes[i]) /\ IsFriendly(nodes[i], b)) =>
               (ConnsInto(nodes[i], b) # {} <=> Distance(NodeTgo(nodes[i]), b) <= RangeOf(b))
    /\ (InfraUpdate /\ RangeMode) =>
           \A i \in 1..Len(pre_nodes) :
               IsFriendly(pre_nodes[i], last.tgo) =>
                   \E j \in 1..Len(nodes) :
                       /\ nodes[j].oid = pre_nodes[i].oid
                       /\ (ConnsInto(nodes[j], last.tgo) # ConnsInto(pre_nodes[i], last.tgo)
                             <=> Distance(NodeTgo(pre_nodes[i]), last.tgo) < RangeOf(last.tgo))

\* C5 amended: in range mode, for a node N and a comms/power ground object
\* B of N's side, resolution from the node side (initialize_network,
\* update_tgo of N's ground object) connects N to B iff distance <= B's
\* range, and update_tgo of a B that is not dead gives N a new connection
\* into B iff distance < B's range: at distance = range the first connects
\* and the second does not.
C5_RangeBoundary ==
    /\ \A i \in ResolvedByRange : \A b \in Tgos :
           (Infrastructure(b) /\ b # NodeTgo(nodes[i]) /\ IsFriendly(nodes[i], b)) =>
               (ConnsInto(nodes[i], b) # {} <=> Distance(NodeTgo(nodes[i]), b) <= RangeOf(b))
    /\ (InfraUpdate /\ RangeMode /\ ~IsDead(last.tgo)) =>
           \A i \in 1..Len(pre_nodes) :
               IsFriendly(pre_nodes[i], last.tgo) =>
                   \E j \in 1..Len(nodes) :
                       /\ nodes[j].oid = pre_nodes[i].oid
                       /\ (ConnsInto(nodes[j], last.tgo) # ConnsInto(pre_nodes[i], last.tgo)
                             <=> Distance(NodeTgo(pre_nodes[i]), last.tgo) < RangeOf(last.tgo))

\* update_tgo of a living comms/power ground object at distance = range of a
\* node of its side, which holds the connection made from the node side.
C5_Witness ==
    /\ InfraUpdate /\ RangeMode /\ ~IsDead(last.tgo)
    /\ \E j \in 1..Len(nodes) :
           /\ IsFriendly(nodes[j], last.tgo)
           /\ Distance(NodeTgo(nodes[j]), last.tgo) = RangeOf(last.tgo)
           /\ Cardinality(ConnsInto(nodes[j], last.tgo)) = 1
           /\ nodes[j] \in {pre_nodes[i] : i \in 1..Len(pre_nodes)}

\* C6 as stated: when the config or range pass of initialize_network leaves
\* no node, every IADS ground object with a living participating group gets
\* one node, and that node has no connection.
C6_BasicNodesBare ==
    FellBack =>
        \A t \in Tgos :
            (BasicPrimary(t) /\ HasAliveParticipant(t)) =>
                /\ Cardinality(NodesOn(nodes, t)) = 1
                /\ \A i \in NodesOn(nodes, t) : nodes[i].connections = <<>>

\* C6 amended: when the config or range pass of initialize_network leaves no
\* node, exactly the IADS ground objects with a living participating group
\* get a node, one each, and a node's only connections are to living
\* point-defense groups of its own ground object: none leads to another one.
C6_BasicNodesOwnPointDefense ==
    FellBack =>
        /\ \A t \in Tgos :
               Cardinality(NodesOn(nodes, t)) =
                   IF BasicPrimary(t) /\ HasAliveParticipant(t) THEN 1 ELSE 0
        /\ \A i \in 1..Len(nodes) : \A c \in ConnsOf(nodes[i]) :
               /\ GroupRole(c.group) = "PD"
               /\ GroundObject(c.group) = NodeTgo(nodes[i])
               /\ AnyAlive(c.group)

\* The fallback gave the SAM site a node that holds its point defense.
C6_Witness ==
    /\ FellBack
    /\ \E i \in 1..Len(nodes) : Len(nodes[i].connections) = 1
    /\ \E t \in Tgos : BasicPrimary(t) /\ HasAliveParticipant(t)

\* The node passes the two skips of skynet_nodes under the culling of the
\* last call.
Projected(node) == NodeTgo(node) \notin snapshot.cull /\ AnyAlive(node.group)

\* The connection of the node passes the skips of the inner loop.
Listed(node, c) ==
    /\ AnyAlive(c.group)
    /\ side[GroundObject(c.group)] = side[NodeTgo(node)]
    /\ GroundObject(c.group) \notin snapshot.cull

Occurrences(seq, x) == Cardinality({k \in 1..Len(seq) : seq[k] = x})

\* C7: skynet_nodes returns a SkynetNode for a node iff its ground object
\* is not culled and its group has a living unit; that SkynetNode lists,
\* under the role of the group, the name of a connection's group once for
\* every connection whose group has a living unit and whose ground object
\* is on the node's side and not culled, and each of its lists is as long
\* as the connections of that role that pass: dropping a connection never
\* drops the node.
C7_ProjectionFiltering ==
    last.op = "project" =>
        /\ ~snapshot.raised
        /\ Len(snapshot.nodes) = Cardinality({i \in 1..Len(nodes) : Projected(nodes[i])})
        /\ \A i \in 1..Len(nodes) :
               IF ~Projected(nodes[i])
               THEN \A k \in 1..Len(snapshot.nodes) :
                        snapshot.nodes[k].dcs_name # DcsNameForGroup(nodes[i].group)
               ELSE \E k \in 1..Len(snapshot.nodes) :
                        LET sn == snapshot.nodes[k] IN
                        /\ sn.dcs_name = DcsNameForGroup(nodes[i].group)
                        /\ sn.player = side[NodeTgo(nodes[i])]
                        /\ \A g \in AllGroups :
                               AnyAlive(g) =>
                                   Occurrences(sn.connections[GroupRole(g)],
                                               DcsNameForGroup(g)) =
                                       Cardinality({m \in 1..Len(nodes[i].connections) :
                                           /\ nodes[i].connections[m].group = g
                                           /\ Listed(nodes[i], nodes[i].connections[m])})
                        /\ \A r \in RoleValues :
                               Len(sn.connections[r]) =
                                   Cardinality({m \in 1..Len(nodes[i].connections) :
                                       /\ GroupRole(nodes[i].connections[m].group) = r
                                       /\ Listed(nodes[i], nodes[i].connections[m])})

\* skynet_nodes returned a node that lists one of its connections and not
\* another, whose ground object is of the other side.
C7_Witness ==
    /\ last.op = "project"
    /\ \E i \in 1..Len(nodes) :
           /\ Projected(nodes[i])
           /\ \E c \in ConnsOf(nodes[i]) : Listed(nodes[i], c)
           /\ \E c \in ConnsOf(nodes[i]) :
                  /\ AnyAlive(c.group)
                  /\ GroundObject(c.group) \notin snapshot.cull
                  /\ side[GroundObject(c.group)] # side[NodeTgo(nodes[i])]

\* C8: no two connections of the graph share an id; an id the graph held
\* before an update_tgo call and holds no more was carried by a
\* delete_iads_connection of that call; an id that stays keeps its node and
\* its group; and no id a delete_iads_connection of the call carried is
\* still in the graph.
C8_StableIds ==
    /\ \A i, j \in 1..Len(nodes) :
           \A k \in 1..Len(nodes[i].connections) : \A m \in 1..Len(nodes[j].connections) :
               (nodes[i].connections[k].cid = nodes[j].connections[m].cid)
                   => (i = j /\ k = m)
    /\ last.op = "update" =>
           /\ \A id \in GraphIds(pre_nodes) \ GraphIds(nodes) : Emitted(ConnEvent(id)) >= 1
           /\ \A i \in 1..Len(pre_nodes) : \A c \in ConnsOf(pre_nodes[i]) :
                  c.cid \in GraphIds(nodes) =>
                      \E j \in 1..Len(nodes) :
                          nodes[j].oid = pre_nodes[i].oid /\ c \in ConnsOf(nodes[j])
           /\ \A k \in 1..Len(events) :
                  events[k].kind = "delete_iads_connection"
                      => events[k].id \notin GraphIds(nodes)

\* An update_tgo call took ids out of a graph that holds others.
C8_Witness ==
    /\ last.op = "update"
    /\ GraphIds(pre_nodes) \ GraphIds(nodes) # {}
    /\ GraphIds(nodes) \cap GraphIds(pre_nodes) # {}
    /\ GraphIds(nodes) \ GraphIds(pre_nodes) # {}

\* C9: update_tgo on the primary-node path removes every node that was
\* anchored on the ground object and calls delete_iads_connection once for
\* each connection id of a removed node and for nothing else; if the ground
\* object has no living participating group it has no node afterwards and
\* update_iads_node is not called; otherwise update_iads_node is called
\* exactly once, for the new node of the ground object.
C9_PrimaryNodePath ==
    PrimaryUpdate =>
        LET old == NodesOn(pre_nodes, last.tgo)
            oldIds == UNION {ConnIds(pre_nodes[i]) : i \in old}
        IN  /\ \A i \in old : pre_nodes[i].oid \notin Oids(nodes)
            /\ \A id \in oldIds : Emitted(ConnEvent(id)) = 1
            /\ EmittedKind("delete_iads_connection") = Cardinality(oldIds)
            /\ IF ~HasAliveParticipant(last.tgo)
               THEN /\ NodesOn(nodes, last.tgo) = {}
                    /\ EmittedKind("update_iads_node") = 0
               ELSE /\ EmittedKind("update_iads_node") = 1
                    /\ \E j \in NodesOn(nodes, last.tgo) :
                           /\ Emitted(NodeEvent(nodes[j])) = 1
                           /\ nodes[j].oid \notin Oids(pre_nodes)

\* update_tgo replaced a node that held connections by a new one.
C9_Witness ==
    /\ PrimaryUpdate
    /\ \E i \in NodesOn(pre_nodes, last.tgo) : pre_nodes[i].connections # <<>>
    /\ NodesOn(nodes, last.tgo) # {}

\* C10: in range mode update_tgo of a dead comms/power ground object adds no
\* connection: every node keeps at most the connection ids it had.
C10_DeadOriginatesNothing ==
    (InfraUpdate /\ RangeMode /\ IsDead(last.tgo)) =>
        \A j \in 1..Len(nodes) :
            \E i \in 1..Len(pre_nodes) :
                /\ pre_nodes[i].oid = nodes[j].oid
                /\ ConnIds(nodes[j]) \subseteq ConnIds(pre_nodes[i])

\* update_tgo of a dead power source with a node of its side within range.
C10_Witness ==
    /\ InfraUpdate /\ RangeMode /\ IsDead(last.tgo)
    /\ \E j \in 1..Len(nodes) :
           /\ IsFriendly(nodes[j], last.tgo)
           /\ Distance(NodeTgo(nodes[j]), last.tgo) < RangeOf(last.tgo)

\* The secondary names the config lists for a ground object.
Secondaries(t) == IF CfgHas(iads_config, t) THEN CfgGet(iads_config, t) ELSE <<>>

ConfigMode == advanced_iads /\ loaded_config # <<>>

\* The nodes whose connections the last call resolved from the config.
ResolvedFromConfig ==
    IF ~ConfigMode THEN {}
    ELSE IF Initialized THEN 1..Len(nodes)
    ELSE IF PrimaryUpdate THEN NodesOn(nodes, last.tgo)
    ELSE {}

ConnsToGroup(node, g) == {k \in 1..Len(node.connections) : node.connections[k].group = g}

\* C11: in config mode initialize_network gives a node to every key of the
\* config that is registered and has a living participating group, whatever
\* absent keys precede it, and no node to anything else; a node resolved
\* from the config (at initialize_network or by update_tgo) holds, for every
\* participating group of another ground object, one connection per listing
\* of that ground object among its secondaries and no other connection
\* beyond its own point defenses: an absent secondary adds nothing and stops
\* nothing.
C11_AbsentReferencesSkipped ==
    /\ (Initialized /\ ConfigMode) =>
           /\ \A k \in 1..Len(iads_config) :
                  LET t == iads_config[k].key IN
                  (InSeq(t, ground_objects) /\ HasAliveParticipant(t)) =>
                      Cardinality(NodesOn(nodes, t)) = 1
           /\ ~FellBack => \A i \in 1..Len(nodes) : CfgHas(iads_config, NodeTgo(nodes[i]))
    /\ \A i \in ResolvedFromConfig :
           LET t == NodeTgo(nodes[i]) IN
           \A g \in AllGroups :
               IF GroundObject(g) = t
               THEN ConnsToGroup(nodes[i], g) # {} => GroupRole(g) = "PD"
               ELSE Cardinality(ConnsToGroup(nodes[i], g)) =
                        IF IsIadsGroundGroup(g) /\ Participate(GroupRole(g))
                        THEN Occurrences(Secondaries(t), GroundObject(g))
                        ELSE 0

\* initialize_network met an absent key before the key of T1 and an absent
\* name before the two registered secondaries of T1, which T1's node holds.
C11_Witness ==
    /\ Initialized /\ ConfigMode
    /\ ~InSeq(iads_config[1].key, ground_objects)
    /\ \E i \in NodesOn(nodes, "T1") :
           /\ Secondaries("T1")[1] = AbsentName
           /\ ConnsInto(nodes[i], "T2") # {}
           /\ ConnsInto(nodes[i], "T3") # {}

\* C12: adding a connection for any group to any node and then deleting the
\* connection by the id it got leaves every node, and so the connections of
\* that node with their ids, their groups and their order, as before the
\* addition.
C12_AddDeleteRoundTrip ==
    last.op = "delete" => nodes = pre_nodes

\* A node that held a connection to a group got a second one to the same
\* group, which was deleted by its id.
C12_Witness ==
    /\ last.op = "delete"
    /\ ConnsToGroup(nodes[last.node], last.group) # {}
    /\ last.cid \notin GraphIds(nodes)
    /\ Len(nodes[last.node].connections) >= 2

\* C13: in every state reached by initialize_network and update_tgo calls,
\* in every mode, no node is anchored on a group whose role is comms or
\* power.
C13_NoInfrastructureAnchor ==
    \A i \in 1..Len(nodes) : ~IsCommsOrPower(GroupRole(nodes[i].group))

\* C14: in every reachable state no node is anchored on a point-defense
\* group, also when the first group of the ground object with a living
\* unit is a point defense.
C14_PointDefenseNeverAnchors ==
    \A i \in 1..Len(nodes) : GroupRole(nodes[i].group) # "PD"

\* The last call built the node of a ground object whose first group is a
\* living point defense: the node is anchored on the second group and holds
\* no connection to the point defense before it.
C14_Witness ==
    /\ last.op \in {"initialize", "update"}
    /\ layout = <<"PD", "Sam">>
    /\ AnyAlive("g1")
    /\ \E i \in NodesOn(nodes, "T1") :
           /\ nodes[i].group = "g2"
           /\ nodes[i].oid \notin Oids(pre_nodes)
           /\ ConnsToGroup(nodes[i], "g1") = {}

\* C15: in every reachable state the group every node is anchored on has a
\* role that participates.
C15_PrimaryParticipates ==
    \A i \in 1..Len(nodes) :
        /\ IsIadsGroundGroup(nodes[i].group)
        /\ Participate(GroupRole(nodes[i].group))

\* update_tgo of a ground object whose participating group is dead and
\* whose point defense lives: its node is gone, the other nodes stay.
C15_Witness ==
    /\ PrimaryUpdate
    /\ last.tgo = "T1"
    /\ layout = <<"Sam", "PD">>
    /\ ~AnyAlive("g1") /\ AnyAlive("g2")
    /\ NodesOn(pre_nodes, "T1") # {}
    /\ NodesOn(nodes, "T1") = {}
    /\ Len(nodes) >= 1

\* C16: a node N whose connections the last call resolved by range (every
\* node at initialize_network in range mode, the new node at update_tgo of
\* its ground object in range mode) holds a connection to a group g of
\* another ground object C iff C is of a comms/power category, within its
\* role's connection range of N (distance <= range), on N's side, and g's
\* role participates, whether C is dead or not; to a group of its own
\* ground object it holds none but the point defenses node_for_tgo attached.
C16_RangeResolution ==
    \A i \in ResolvedByRange :
        LET t == NodeTgo(nodes[i]) IN
        \A g \in AllGroups :
            LET c == GroundObject(g) IN
            IF c = t
            THEN ConnsToGroup(nodes[i], g) # {} => GroupRole(g) = "PD"
            ELSE ConnsToGroup(nodes[i], g) # {} <=>
                     /\ Infrastructure(c)
                     /\ Distance(t, c) <= RangeOf(c)
                     /\ side[c] = side[t]
                     /\ IsIadsGroundGroup(g) /\ Participate(GroupRole(g))

\* Range resolution connected a node to a dead power source of its side and
\* not to a comms building of the other side within range.
C16_Witness ==
    \E i \in ResolvedByRange :
        LET t == NodeTgo(nodes[i]) IN
        /\ t # "T2" /\ IsDead("T2") /\ side["T2"] = side[t]
        /\ ConnsInto(nodes[i], "T2") # {}
        /\ t # "T3" /\ Infrastructure("T3") /\ side["T3"] # side[t]
        /\ Distance(t, "T3") <= RangeOf("T3")
        /\ ConnsInto(nodes[i], "T3") = {}

\* C17: in every state reached by initialize_network and update_tgo calls
\* no node holds two connections, under two ids, to the same group; so
\* update_tgo of a living comms/power ground object in range mode gives no
\* node a second connection to a group it is connected to.
C17_NoDuplicateLinks ==
    \A i \in 1..Len(nodes) : \A g \in AllGroups :
        Cardinality(ConnsToGroup(nodes[i], g)) <= 1

\* The names a SkynetNode carries: its own and those of its connections.
NamesOf(sn) ==
    {sn.dcs_name} \cup UNION {{sn.connections[r][m] : m \in 1..Len(sn.connections[r])} :
                                  r \in RoleValues}

\* C18: skynet_nodes never raises IadsNetworkException, whatever units are
\* alive and whatever is culled: every name in its result was derived from
\* a group with a living unit (a living unit's name, or the name of a group
\* that has one).
C18_ProjectNeverRaises ==
    last.op = "project" =>
        /\ ~snapshot.raised
        /\ \A k \in 1..Len(snapshot.nodes) : \A name \in NamesOf(snapshot.nodes[k]) :
               /\ name # Raised
               /\ name \in AllUnits => alive[name]
               /\ name \in AllGroups => AnyAlive(name)

\* skynet_nodes returned a node that holds a connection to a group for
\* which dcs_name_for_group would raise: a radar group without a living
\* unit, not a static, on the node's side and not culled.
C18_Witness ==
    /\ last.op = "project"
    /\ Len(snapshot.nodes) >= 1
    /\ \E i \in 1..Len(nodes) :
           /\ Projected(nodes[i])
           /\ \E c \in ConnsOf(nodes[i]) :
                  /\ DcsNameForGroup(c.group) = Raised
                  /\ side[GroundObject(c.group)] = side[NodeTgo(nodes[i])]
                  /\ GroundObject(c.group) \notin snapshot.cull

\* C19: initialize_network and every update_tgo call leave iads_config, its
\* keys and the list of every key, as __init__ loaded it, also when
\* update_tgo resolves from the config the node of a ground object that is
\* no key of it; so the network resolves from the config after a call iff
\* it did at construction.
C19_ConfigFixed ==
    /\ iads_config = loaded_config
    /\ (Len(iads_config) > 0) <=> (Len(loaded_config) > 0)

====
